---- MODULE Spec2Model ----
(***************************************************************************)
(* BlueZ adapter registry (manager.c, kept in doc/proximity-api.txt) and   *)
(* the hciops plugin (plugins/hciops.c): the kernel control-channel        *)
(* handler io_stack_event, the device_event dispatch, the registry         *)
(* operations it drives, and the bring-up workers forked by init_device.   *)
(*                                                                         *)
(* Every handler of the single-threaded main loop is one action.  The      *)
(* registry operations are operators over a record m that holds the        *)
(* registry (adapters, default_adapter_id), the live workers, the calls    *)
(* made to collaborators during the running handler, and the value         *)
(* returned by the last manager_* call.                                    *)
(***************************************************************************)
EXTENDS Integers, Sequences, FiniteSets, TLC

(******************************* bounds ************************************)
\* kernel device ids are 0 .. MaxDev-1
MaxDev == 2
\* bring-up workers alive at the same time; pids are 1 .. MaxChildren
MaxChildren == 1

DevIds == 0 .. (MaxDev - 1)
Pids == 1 .. MaxChildren

(************************* program constants *******************************)
HCI_EVENT_PKT == 4
EVT_STACK_INTERNAL == 253
EVT_SI_DEVICE == 1
HCI_EVENT_HDR_SIZE == 2
HCI_DEV_REG == 1
HCI_DEV_UNREG == 2
HCI_DEV_UP == 3
HCI_DEV_DOWN == 4
EINVAL == 22
EALREADY == 114
\* sizeof(evt_stack_internal) + sizeof(evt_si_device): uint16 type, uint16
\* event, uint16 dev_id
EVT_SI_DEVICE_RECORD_SIZE == 6
\* packet-type byte + event header + device sub-event record
FrameSize == 1 + HCI_EVENT_HDR_SIZE + EVT_SI_DEVICE_RECORD_SIZE

VARIABLES
    adapters,            \* GSList *adapters: sequence of [dev_id, up, ready]
    default_adapter_id,  \* static int default_adapter_id
    kraw,                \* kernel devices whose HCI_RAW flag is set
    children,            \* pid -> "none" | "run" | "exiting" | "zombie" | "lost"
    child_pipe,          \* pids written to child_pipe[1], not yet read
    ctl_watch,           \* io_stack_event is watched by the main loop
    child_watch,         \* child_exit is watched by the main loop
    adapter_ops,         \* const struct btd_adapter_ops *adapter_ops
    started,             \* manager_init_adapters has run
    ev,                  \* what the running handler was given, read and
                         \* dispatched, and default_adapter_id when it
                         \* started
    calls                \* calls the running handler made to collaborators

vars == <<adapters, default_adapter_id, kraw, children, child_pipe,
          ctl_watch, child_watch, adapter_ops, started, ev, calls>>

(***************************** helpers *************************************)
Min(S) == CHOOSE x \in S : \A y \in S : x <= y

\* (uint16_t) of an int
U16(x) == x % 65536

\* adapter_get_path: the object path is derived from the device id
Path(id) == <<"hci", id>>

NULL == <<>>

Call(op, id, paths) == [op |-> op, id |-> id, paths |-> paths]

Emit(m, c) == [m EXCEPT !.calls = Append(@, c)]

Ids(ads) == {ads[i].dev_id : i \in 1 .. Len(ads)}

IdSeq(ads) == [i \in 1 .. Len(ads) |-> ads[i].dev_id]

\* a list that would put the new element first
g_slist_prepend(l, x) == <<x>> \o l

g_slist_append(l, x) == Append(l, x)

g_slist_remove(l, i) == SubSeq(l, 1, i - 1) \o SubSeq(l, i + 1, Len(l))

(******************* manager.c: the adapter registry ***********************)
\* adapter_id_cmp over g_slist_find_custom: the position of the first
\* adapter whose dev_id equals (uint16_t) id, 0 when there is none
manager_find_adapter_by_id(ads, id) ==
    LET hit == {i \in 1 .. Len(ads) : ads[i].dev_id = U16(id)}
    IN  IF hit = {} THEN 0 ELSE Min(hit)

\* the array manager_update_adapters fills: one slot per adapter plus the
\* terminator, a slot left NULL when its adapter is not ready
adapters_array(ads) ==
    [i \in 1 .. Len(ads) + 1 |->
        IF i <= Len(ads) /\ ads[i].ready THEN Path(ads[i].dev_id) ELSE NULL]

\* emit_array_property_changed sends the NULL-terminated array
emit_array_property_changed(array) ==
    SubSeq(array, 1, Min({i \in 1 .. Len(array) : array[i] = NULL}) - 1)

\* dict_append_array is handed the array and a count: it appends that many
\* slots of the array
dict_append_array(array, n) == SubSeq(array, 1, n)

\* get_properties: the count passed is the number of adapters
get_properties(m) ==
    Emit(m, Call("GetProperties", -1,
                 dict_append_array(adapters_array(m.adapters),
                                   Len(m.adapters))))

manager_update_adapters(m) ==
    Emit(m, Call("AdapterSetChanged", -1,
                 emit_array_property_changed(adapters_array(m.adapters))))

\* a reassignment that would signal whether or not id is registered
set_default_always_signalling(m, id) ==
    Emit([m EXCEPT !.default_adapter_id = id],
         Call("DefaultAdapterChanged", id, <<Path(id)>>))

manager_set_default_adapter(m, id) ==
    LET m1 == [m EXCEPT !.default_adapter_id = id]
    IN  IF manager_find_adapter_by_id(m1.adapters, id) = 0
        THEN m1
        ELSE Emit(m1, Call("DefaultAdapterChanged", id, <<Path(id)>>))

\* adapter_remove: the backend tears the adapter's operations down
adapter_remove(m, dev_id) == Emit(m, Call("teardown", dev_id, <<>>))

\* a removal that would re-derive the default every time
remove_adapter_always_rederiving(m, idx, route) ==
    LET dev_id == m.adapters[idx].dev_id
        m1 == [m EXCEPT !.adapters = g_slist_remove(@, idx)]
        m2 == manager_update_adapters(m1)
        m3 == manager_set_default_adapter(
                  Emit(m2, Call("hci_get_route", route, <<>>)), route)
        m4 == Emit(m3, Call("AdapterRemoved", dev_id, <<Path(dev_id)>>))
    IN  adapter_remove(m4, dev_id)

\* a removal that would also forget the workers in flight
remove_adapter_cancelling_workers(m, idx, route) ==
    LET dev_id == m.adapters[idx].dev_id
        m1 == [m EXCEPT !.adapters = g_slist_remove(@, idx),
                        !.children = [p \in DOMAIN @ |-> "none"]]
        m2 == manager_update_adapters(m1)
        m3 == IF m2.default_adapter_id = dev_id \/ m2.default_adapter_id < 0
              THEN manager_set_default_adapter(
                       Emit(m2, Call("hci_get_route", route, <<>>)), route)
              ELSE m2
        m4 == Emit(m3, Call("AdapterRemoved", dev_id, <<Path(dev_id)>>))
    IN  adapter_remove(m4, dev_id)

\* route is what hci_get_route(NULL) returns: a kernel device id, or -1
manager_remove_adapter(m, idx, route) ==
    LET dev_id == m.adapters[idx].dev_id
        m1 == [m EXCEPT !.adapters = g_slist_remove(@, idx)]
        m2 == manager_update_adapters(m1)
        m3 == IF m2.default_adapter_id = dev_id \/ m2.default_adapter_id < 0
              THEN manager_set_default_adapter(
                       Emit(m2, Call("hci_get_route", route, <<>>)), route)
              ELSE m2
        m4 == Emit(m3, Call("AdapterRemoved", dev_id, <<Path(dev_id)>>))
    IN  adapter_remove(m4, dev_id)

manager_add_adapter(m, id) ==
    manager_update_adapters(Emit(m, Call("AdapterAdded", id, <<Path(id)>>)))

\* adapter_create: create is "null" when no adapter could be created,
\* otherwise the backend was asked to materialize the adapter object and
\* create says whether the adapter is ready ("ready") or not ("notready")
adapter_create(m, id, devup, create) ==
    IF create = "null"
    THEN [m |-> m, created |-> FALSE, adapter |-> NULL]
    ELSE [m |-> manager_add_adapter(Emit(m, Call("materialize", id, <<>>)), id),
          created |-> TRUE,
          adapter |-> [dev_id |-> U16(id), up |-> devup,
                       ready |-> (create = "ready")]]

\* a register that would not look the id up first
register_without_lookup(m, id, devup, create) ==
    LET c == adapter_create(m, id, devup, create)
    IN  IF ~c.created
        THEN [c.m EXCEPT !.ret = -1]
        ELSE [c.m EXCEPT !.adapters = g_slist_append(@, c.adapter),
                         !.ret = 0]

manager_register_adapter(m, id, devup, create) ==
    IF manager_find_adapter_by_id(m.adapters, id) # 0
    THEN [m EXCEPT !.ret = -1]
    ELSE LET c == adapter_create(m, id, devup, create)
         IN  IF ~c.created
             THEN [c.m EXCEPT !.ret = -1]
             ELSE [c.m EXCEPT !.adapters = g_slist_append(@, c.adapter),
                              !.ret = 0]

\* an unregister that would refresh the adapter list for an unknown id too
unregister_always_refreshing(m, id, route) ==
    LET idx == manager_find_adapter_by_id(m.adapters, id)
    IN  IF idx = 0
        THEN [manager_update_adapters(m) EXCEPT !.ret = -1]
        ELSE [manager_remove_adapter(m, idx, route) EXCEPT !.ret = 0]

manager_unregister_adapter(m, id, route) ==
    LET idx == manager_find_adapter_by_id(m.adapters, id)
    IN  IF idx = 0
        THEN [m EXCEPT !.ret = -1]
        ELSE [manager_remove_adapter(m, idx, route) EXCEPT !.ret = 0]

\* adapter_start: an adapter already up is left alone; otherwise the
\* backend's start operation runs and start is what it returns (< 0 an
\* error, 0 started, 1 it brought the device down again); the adapter is
\* recorded up unless start failed
adapter_start(m, idx, start) ==
    IF m.adapters[idx].up
    THEN [m EXCEPT !.ret = 0]
    ELSE LET m1 == Emit(m, Call("start", m.adapters[idx].dev_id, <<>>))
         IN  [m1 EXCEPT !.adapters[idx].up = (start >= 0), !.ret = start]

\* a start that would claim the default whether or not one is set
start_always_claiming_default(m, id, start) ==
    LET idx == manager_find_adapter_by_id(m.adapters, id)
    IN  IF idx = 0
        THEN [m EXCEPT !.ret = -EINVAL]
        ELSE LET m1 == adapter_start(m, idx, start)
             IN  IF m1.ret < 0
                 THEN m1
                 ELSE [manager_set_default_adapter(m1, id)
                           EXCEPT !.ret = m1.ret]

manager_start_adapter(m, id, start) ==
    LET idx == manager_find_adapter_by_id(m.adapters, id)
    IN  IF idx = 0
        THEN [m EXCEPT !.ret = -EINVAL]
        ELSE LET m1 == adapter_start(m, idx, start)
             IN  IF m1.ret < 0
                 THEN m1
                 ELSE IF m1.default_adapter_id < 0
                      THEN [manager_set_default_adapter(m1, id)
                                EXCEPT !.ret = m1.ret]
                      ELSE m1

\* adapter_stop: an adapter already down is left alone; otherwise the
\* backend's stop operation runs, stop is what it returns, and the adapter
\* is recorded down
adapter_stop(m, idx, stop) ==
    IF ~m.adapters[idx].up
    THEN [m EXCEPT !.ret = 0]
    ELSE LET m1 == Emit(m, Call("stop", m.adapters[idx].dev_id, <<>>))
         IN  [m1 EXCEPT !.adapters[idx].up = FALSE, !.ret = stop]

manager_stop_adapter(m, id, stop) ==
    LET idx == manager_find_adapter_by_id(m.adapters, id)
    IN  IF idx = 0
        THEN [m EXCEPT !.ret = -EINVAL]
        ELSE adapter_stop(m, idx, stop)

(********************** hciops.c: the kernel events ************************)
\* What the environment answers during one device_event: fork() in
\* init_device, hci_devinfo and the HCI_UP bit it reports, hci_open_dev,
\* adapter_create, the backend's start and stop, hci_get_route.
ForkResults == {"ok", "fail"}
DevinfoResults == {"ok", "fail"}
OpenResults == {"ok", "fail"}
\* adapter_create fails, or gives an adapter the backend materialized
\* ("ready"), or one it could not materialize ("notready")
CreateResults == {"null", "ready", "notready"}
StartResults == {-1, 0, 1}
StopResults == {-1, 0}
Routes == {-1} \cup DevIds

NoEnv ==
    [fork |-> "fail", devinfo |-> "fail", kup |-> FALSE, open |-> "fail",
     create |-> "null", start |-> -1, stop |-> -1, route |-> -1]

FreePids(ch) == {p \in Pids : ch[p] = "none"}

\* the answers the calls made for this event can get
EnvFor(event, ch) ==
    CASE event = HCI_DEV_REG ->
            {[NoEnv EXCEPT !.fork = f, !.devinfo = d[1], !.kup = d[2],
                           !.create = c] :
                f \in {x \in ForkResults : x = "ok" => FreePids(ch) # {}},
                d \in {<<"fail", FALSE>>, <<"ok", FALSE>>, <<"ok", TRUE>>},
                c \in CreateResults}
      [] event = HCI_DEV_UNREG ->
            {[NoEnv EXCEPT !.route = r] : r \in Routes}
      [] event = HCI_DEV_UP ->
            {[NoEnv EXCEPT !.devinfo = d, !.open = o, !.start = r] :
                d \in DevinfoResults, o \in OpenResults, r \in StartResults}
      [] event = HCI_DEV_DOWN ->
            {[NoEnv EXCEPT !.stop = r] : r \in StopResults}
      [] OTHER -> {NoEnv}

\* the answers in which the backend materializes every adapter it creates
MaterializedEnvs(event, ch) ==
    {env \in EnvFor(event, ch) : env.create # "notready"}

\* hci_devinfo: the flags of a kernel device, when it can be queried
hci_devinfo(dev_id, env) ==
    [ok |-> env.devinfo = "ok", up |-> env.kup, raw |-> dev_id \in kraw]

start_security_manager(m, dev_id) == Emit(m, Call("notify_up", dev_id, <<>>))

stop_security_manager(m, dev_id) == Emit(m, Call("notify_down", dev_id, <<>>))

\* the settings are sent only when the device is known, not raw, and opens
configure_device(m, dev_id, env) ==
    LET di == hci_devinfo(dev_id, env)
    IN  IF ~di.ok THEN m
        ELSE IF di.raw THEN m
        ELSE IF env.open # "ok" THEN m
        ELSE Emit(m, Call("configure", dev_id, <<>>))

\* a fork whose failure would still leave a worker to wait for
init_device_counting_failed_fork(m, dev_id, env) ==
    IF FreePids(m.children) # {}
    THEN Emit([m EXCEPT !.children[Min(FreePids(m.children))] = "run"],
              Call(IF env.fork = "ok" THEN "fork" ELSE "fork_failed",
                   dev_id, <<>>))
    ELSE Emit(m, Call("fork_failed", dev_id, <<>>))

\* init_device in the parent: fork() and return; the child is the worker
init_device(m, dev_id, env) ==
    IF env.fork = "ok"
    THEN LET pid == Min(FreePids(m.children))
         IN  Emit([m EXCEPT !.children[pid] = "run"],
                  Call("fork", dev_id, <<>>))
    ELSE Emit(m, Call("fork_failed", dev_id, <<>>))

\* a REG handler that would register raw devices too
devreg_setup_ignoring_raw(m, dev_id, env) ==
    LET di == hci_devinfo(dev_id, env)
        m1 == Emit(init_device(m, dev_id, env),
                   Call(IF ~di.ok THEN "devinfo_failed"
                        ELSE IF di.up THEN "devinfo_up" ELSE "devinfo_down",
                        dev_id, <<>>))
    IN  IF ~di.ok THEN m1
        ELSE manager_register_adapter(
                 Emit(m1, Call(IF di.up THEN "register_up"
                               ELSE "register_down", dev_id, <<>>)),
                 dev_id, di.up, env.create)

device_devreg_setup(m, dev_id, env) ==
    LET di == hci_devinfo(dev_id, env)
        m1 == Emit(init_device(m, dev_id, env),
                   Call(IF ~di.ok THEN "devinfo_failed"
                        ELSE IF di.up THEN "devinfo_up" ELSE "devinfo_down",
                        dev_id, <<>>))
    IN  IF ~di.ok THEN m1
        ELSE IF ~di.raw
             THEN manager_register_adapter(
                      Emit(m1, Call(IF di.up THEN "register_up"
                                    ELSE "register_down", dev_id, <<>>)),
                      dev_id, di.up, env.create)
             ELSE m1

\* an UP handler that would give up when the settings cannot be applied
devup_setup_needing_configure(m, dev_id, env) ==
    LET m1 == configure_device(m, dev_id, env)
        m2 == start_security_manager(m1, dev_id)
        m3 == manager_start_adapter(m2, dev_id, env.start)
    IN  IF m1.calls = m.calls THEN [m EXCEPT !.ret = -EINVAL]
        ELSE IF m3.ret = 1 THEN stop_security_manager(m3, dev_id) ELSE m3

\* an UP handler that would not look at what the start returned
devup_setup_ignoring_result(m, dev_id, env) ==
    manager_start_adapter(
        start_security_manager(configure_device(m, dev_id, env), dev_id),
        dev_id, env.start)

device_devup_setup(m, dev_id, env) ==
    LET m1 == configure_device(m, dev_id, env)
        m2 == start_security_manager(m1, dev_id)
        m3 == manager_start_adapter(m2, dev_id, env.start)
    IN  IF m3.ret = 1 THEN stop_security_manager(m3, dev_id) ELSE m3

device_event(m, event, dev_id, env) ==
    CASE event = HCI_DEV_REG -> device_devreg_setup(m, dev_id, env)
      [] event = HCI_DEV_UNREG ->
            manager_unregister_adapter(m, dev_id, env.route)
      [] event = HCI_DEV_UP -> device_devup_setup(m, dev_id, env)
      [] event = HCI_DEV_DOWN ->
            stop_security_manager(
                manager_stop_adapter(m, dev_id, env.stop), dev_id)
      [] OTHER -> m

(******************* hciops.c: the control channel *************************)
\* g_io_channel_read on the control socket
IoErrors == {"NONE", "AGAIN", "FAILED"}

\* how many bytes a read without error returned: nothing, a frame one byte
\* short, a whole frame
ReadLens == {0, FrameSize - 1, FrameSize}

\* a device event frame as the kernel lays it out: packet type, event
\* code, parameter length, sub-event type, event, dev_id (uint16 fields low
\* byte first)
Frame(t, e, s, k, d) == <<t, e, EVT_SI_DEVICE_RECORD_SIZE, s, 0, k, 0, d, 0>>

\* the device events, and one event the switch of device_event has no case
\* for
FrameEvents == {HCI_DEV_REG, HCI_DEV_UNREG, HCI_DEV_UP, HCI_DEV_DOWN,
                HCI_DEV_DOWN + 1}

\* buf[] after the read.  The read fills the first len bytes; the array is
\* not initialised, so the bytes behind them are whatever the stack held:
\* both are drawn from the same buffers.  These are the device event
\* frames, and a device event frame with another packet type (ACL data),
\* with another event code (command complete), and with another sub-event
\* type (security).
Buffers ==
    {Frame(HCI_EVENT_PKT, EVT_STACK_INTERNAL, EVT_SI_DEVICE, k, d) :
        k \in FrameEvents, d \in DevIds}
    \cup {Frame(HCI_EVENT_PKT - 2, EVT_STACK_INTERNAL, EVT_SI_DEVICE,
                HCI_DEV_REG, 0),
          Frame(HCI_EVENT_PKT, 14, EVT_SI_DEVICE, HCI_DEV_REG, 0),
          Frame(HCI_EVENT_PKT, EVT_STACK_INTERNAL, EVT_SI_DEVICE + 1,
                HCI_DEV_REG, 0)}

\* a uint16_t field at byte offset off of buf (host byte order, little endian)
get_u16(buf, off) == buf[off + 1] + 256 * buf[off + 2]

\* the device event io_stack_event finds in buf; the length read is not
\* looked at
decode_frame(buf) ==
    LET type == buf[1]
        evt == buf[2]
        si == 1 + HCI_EVENT_HDR_SIZE
    IN  IF type # HCI_EVENT_PKT
        THEN [dispatch |-> FALSE, event |-> -1, dev_id |-> -1]
        ELSE IF evt # EVT_STACK_INTERNAL
        THEN [dispatch |-> FALSE, event |-> -1, dev_id |-> -1]
        ELSE IF get_u16(buf, si) # EVT_SI_DEVICE
        THEN [dispatch |-> FALSE, event |-> -1, dev_id |-> -1]
        ELSE [dispatch |-> TRUE, event |-> get_u16(buf, si + 2),
              dev_id |-> get_u16(buf, si + 4)]

\* what one control-channel read can give to io_stack_event
Reads ==
    {[err |-> e, len |-> 0, buf |-> <<>>] : e \in IoErrors \ {"NONE"}}
    \cup {[err |-> "NONE", len |-> n, buf |-> b] :
        n \in ReadLens, b \in Buffers}

\* the reads the kernel produces: an error, or one whole event frame that
\* passed the socket's filter and carries a device sub-event
KernelReads ==
    {rd \in Reads :
        rd.err = "NONE" =>
            /\ rd.len = FrameSize
            /\ rd.buf[1] = HCI_EVENT_PKT
            /\ rd.buf[2] = EVT_STACK_INTERNAL
            /\ get_u16(rd.buf, 1 + HCI_EVENT_HDR_SIZE) = EVT_SI_DEVICE}

\* the registry as the handlers see it, no call made yet
M ==
    [adapters |-> adapters, default_adapter_id |-> default_adapter_id,
     children |-> children, calls |-> <<>>, ret |-> 0]

Idle ==
    [handler |-> "idle", err |-> "NONE", len |-> -1, buf |-> <<>>,
     dispatched |-> FALSE, event |-> -1, dev_id |-> -1, ret |-> 0,
     old_default |-> -1, pid |-> 0, blocked |-> FALSE, ops |-> "",
     list |-> <<>>, envs |-> <<>>]

\* a handler that would stay watched after any read error
io_stack_event_always_watched(m, rd, env) ==
    IF rd.err # "NONE"
    THEN [m |-> m, keep |-> TRUE,
          d |-> [dispatch |-> FALSE, event |-> -1, dev_id |-> -1]]
    ELSE LET d == decode_frame(rd.buf)
         IN  [m |-> IF d.dispatch
                    THEN device_event(m, d.event, d.dev_id, env)
                    ELSE m,
              keep |-> TRUE, d |-> d]

\* io_stack_event: keep says whether the watch stays (the return value)
io_stack_event(m, rd, env) ==
    IF rd.err # "NONE"
    THEN [m |-> m, keep |-> (rd.err = "AGAIN"),
          d |-> [dispatch |-> FALSE, event |-> -1, dev_id |-> -1]]
    ELSE LET d == decode_frame(rd.buf)
         IN  [m |-> IF d.dispatch
                    THEN device_event(m, d.event, d.dev_id, env)
                    ELSE m,
              keep |-> TRUE, d |-> d]

(****************************** actions ************************************)
Init ==
    /\ adapters = <<>>
    /\ default_adapter_id = -1
    /\ kraw \in SUBSET DevIds
    /\ children = [p \in Pids |-> "none"]
    /\ child_pipe = <<>>
    /\ ctl_watch = TRUE
    /\ child_watch = TRUE
    /\ adapter_ops = "hciops"
    /\ started = TRUE
    /\ ev = Idle
    /\ calls = <<>>

\* the plugin is set up and no kernel device is in raw mode
InitNoRaw == Init /\ kraw = {}

\* the main loop calls io_stack_event for a readable control socket; rds
\* is what the read can give, and materialized says that the backend
\* materializes every adapter
IoStackEventOn(rds, materialized) ==
    /\ ev.handler = "idle"
    /\ ctl_watch
    /\ \E rd \in rds :
        \E env \in (IF rd.err = "NONE" /\ decode_frame(rd.buf).dispatch
                    THEN IF materialized
                         THEN MaterializedEnvs(decode_frame(rd.buf).event,
                                               children)
                         ELSE EnvFor(decode_frame(rd.buf).event, children)
                    ELSE {NoEnv}) :
            LET r == io_stack_event(M, rd, env)
            IN  /\ adapters' = r.m.adapters
                /\ default_adapter_id' = r.m.default_adapter_id
                /\ children' = r.m.children
                /\ calls' = r.m.calls
                /\ ctl_watch' = r.keep
                /\ ev' = [handler |-> "io_stack_event", err |-> rd.err,
                          len |-> rd.len, buf |-> rd.buf,
                          dispatched |-> r.d.dispatch,
                          event |-> r.d.event, dev_id |-> r.d.dev_id,
                          ret |-> r.m.ret,
                          old_default |-> default_adapter_id,
                          pid |-> 0, blocked |-> FALSE, ops |-> "",
                          list |-> <<>>, envs |-> <<>>]
                /\ UNCHANGED <<kraw, child_pipe, child_watch, adapter_ops,
                               started>>

\* the handler returned: the main loop polls its descriptors again
MainLoopIterate ==
    /\ ev.handler # "idle"
    /\ ev.handler # "manager_cleanup"
    /\ ~ev.blocked
    /\ ev' = Idle
    /\ calls' = <<>>
    /\ UNCHANGED <<adapters, default_adapter_id, kraw, children, child_pipe,
                   ctl_watch, child_watch, adapter_ops, started>>

\* any bytes on the control socket
IoStackEvent == IoStackEventOn(Reads, TRUE)

\* only what the kernel sends
IoStackEventKernel == IoStackEventOn(KernelReads, TRUE)

Next ==
    \/ IoStackEvent
    \/ MainLoopIterate

Spec == Init /\ [][Next]_vars

NextKernel ==
    \/ IoStackEventKernel
    \/ MainLoopIterate

\* the behaviours in which every frame read is a kernel device event
SpecKernel == Init /\ [][NextKernel]_vars

\* the management front end calls GetProperties
GetProperties ==
    /\ ev.handler = "idle"
    /\ started
    /\ calls' = get_properties(M).calls
    /\ ev' = [Idle EXCEPT !.handler = "get_properties",
                          !.old_default = default_adapter_id]
    /\ UNCHANGED <<adapters, default_adapter_id, kraw, children, child_pipe,
                   ctl_watch, child_watch, adapter_ops, started>>

\* the kernel's frames about one device more than DevIds holds: the
\* listing of three adapters is then within reach
ReadyReads ==
    KernelReads
    \cup {[err |-> "NONE", len |-> FrameSize,
           buf |-> Frame(HCI_EVENT_PKT, EVT_STACK_INTERNAL, EVT_SI_DEVICE,
                         k, MaxDev)] :
            k \in {HCI_DEV_REG, HCI_DEV_UNREG}}

\* the kernel's frames, with a backend that may fail to materialize an
\* adapter
IoStackEventUnready == IoStackEventOn(ReadyReads, FALSE)

NextReady ==
    \/ IoStackEventUnready
    \/ GetProperties
    \/ MainLoopIterate

\* the registry with ready and not-ready adapters, and its listing
SpecReady == InitNoRaw /\ [][NextReady]_vars

(************* manager.c and hciops.c: the start of the daemon *************)
\* the backends that ask to be registered: the hciops plugin, another
\* plugin, and one whose setup operation is NULL
Backends == {"hciops", "other", "nosetup"}

\* a registration that would replace the backend already there
register_ops_replacing(ops, btd_adapter_ops) ==
    IF btd_adapter_ops = "nosetup"
    THEN [adapter_ops |-> ops, ret |-> -EINVAL]
    ELSE [adapter_ops |-> btd_adapter_ops, ret |-> 0]

btd_register_adapter_ops(ops, btd_adapter_ops) ==
    IF ops # "NULL"
    THEN [adapter_ops |-> ops, ret |-> -EALREADY]
    ELSE IF btd_adapter_ops = "nosetup"
    THEN [adapter_ops |-> ops, ret |-> -EINVAL]
    ELSE [adapter_ops |-> btd_adapter_ops, ret |-> 0]

\* the answers of a REG and of an UP handler when everything works; up is
\* the HCI_UP flag of the device
OkReg(up) ==
    [NoEnv EXCEPT !.fork = "ok", !.devinfo = "ok", !.kup = up,
                  !.create = "ready"]

OkUp == [NoEnv EXCEPT !.devinfo = "ok", !.open = "ok", !.start = 0]

\* the answers the two handlers get for one listed device: everything
\* works, or one call does not
SetupEnvs(up) ==
    {[reg |-> OkReg(up), up |-> OkUp],
     [reg |-> [OkReg(up) EXCEPT !.fork = "fail"], up |-> OkUp],
     [reg |-> [OkReg(up) EXCEPT !.devinfo = "fail"], up |-> OkUp],
     [reg |-> [OkReg(up) EXCEPT !.create = "null"], up |-> OkUp],
     [reg |-> [OkReg(up) EXCEPT !.fork = "fail", !.kup = ~up], up |-> OkUp],
     [reg |-> [OkReg(up) EXCEPT !.fork = "fail"],
      up |-> [OkUp EXCEPT !.start = -1]],
     [reg |-> [OkReg(up) EXCEPT !.fork = "fail"],
      up |-> [OkUp EXCEPT !.start = 1]]}

\* the kernel's device list (HCIGETDEVLIST): devices in some order, each
\* with its HCI_UP flag
RECURSIVE DevLists(_)
DevLists(n) ==
    IF n = 0 THEN {<<>>}
    ELSE LET shorter == DevLists(n - 1)
         IN  shorter \cup
             {Append(l, [dev_id |-> d, up |-> u]) :
                 l \in {x \in shorter : Len(x) = n - 1},
                 d \in DevIds, u \in BOOLEAN}

DistinctDevLists ==
    {l \in DevLists(MaxDev) :
        \A i, j \in 1 .. Len(l) : l[i].dev_id = l[j].dev_id => i = j}

\* a loop that would dispatch the UP event of a device before its REG
RECURSIVE init_devices_up_first(_, _, _, _)
init_devices_up_first(m, list, envs, i) ==
    IF i > Len(list) THEN m
    ELSE LET dr == list[i]
             m1 == IF dr.up
                   THEN device_event(m, HCI_DEV_UP, dr.dev_id, envs[i].up)
                   ELSE m
             m2 == device_event(m1, HCI_DEV_REG, dr.dev_id, envs[i].reg)
         IN  init_devices_up_first(m2, list, envs, i + 1)

\* the loop of init_all_devices from entry i on
RECURSIVE init_devices_from(_, _, _, _)
init_devices_from(m, list, envs, i) ==
    IF i > Len(list) THEN m
    ELSE LET dr == list[i]
             m1 == device_event(m, HCI_DEV_REG, dr.dev_id, envs[i].reg)
             m2 == IF dr.up
                   THEN device_event(m1, HCI_DEV_UP, dr.dev_id, envs[i].up)
                   ELSE m1
         IN  init_devices_from(m2, list, envs, i + 1)

\* init_all_devices: nothing is dispatched when the list cannot be had
init_all_devices(m, s) ==
    IF s.devlist # "ok" THEN m
    ELSE init_devices_from(m, s.list, s.envs, 1)

\* hciops_setup: the pipe and its watch, the control socket and its watch,
\* then the devices the kernel already has
hciops_setup(m, s) ==
    IF s.pipe # "ok"
    THEN [m |-> m, child_watch |-> FALSE, ctl_watch |-> FALSE]
    ELSE IF s.sock # "ok"
    THEN [m |-> m, child_watch |-> TRUE, ctl_watch |-> FALSE]
    ELSE [m |-> init_all_devices(m, s), child_watch |-> TRUE,
          ctl_watch |-> TRUE]

\* manager_init_adapters: the setup operation of the registered backend;
\* the setup of another backend is outside this model
manager_init_adapters(m, ops, s) ==
    IF ops = "NULL"
    THEN [m |-> m, child_watch |-> FALSE, ctl_watch |-> FALSE]
    ELSE IF ops = "hciops"
    THEN hciops_setup(m, s)
    ELSE [m |-> m, child_watch |-> FALSE, ctl_watch |-> FALSE]

\* how many workers the forks of envs start
RECURSIVE Forks(_, _, _)
Forks(list, envs, i) ==
    IF i > Len(list) THEN 0
    ELSE (IF envs[i].reg.fork = "ok" THEN 1 ELSE 0) + Forks(list, envs, i + 1)

NoSetup ==
    [pipe |-> "fail", sock |-> "fail", devlist |-> "fail", list |-> <<>>,
     envs |-> <<>>]

\* what hciops_setup can meet: pipe() fails, the socket cannot be had, the
\* device list cannot be had, or the kernel lists some devices
Setups ==
    {NoSetup, [NoSetup EXCEPT !.pipe = "ok"],
     [NoSetup EXCEPT !.pipe = "ok", !.sock = "ok"]}
    \cup UNION {
        {[pipe |-> "ok", sock |-> "ok", devlist |-> "ok", list |-> l,
          envs |-> e] :
            e \in {x \in [1 .. Len(l) -> UNION {SetupEnvs(u) : u \in BOOLEAN}] :
                      /\ \A i \in 1 .. Len(l) : x[i] \in SetupEnvs(l[i].up)
                      /\ Forks(l, x, 1) <= MaxChildren}} :
        l \in DistinctDevLists}

\* before main() has initialised anything; no device is in raw mode, or
\* the first one is
InitStartup ==
    /\ adapters = <<>>
    /\ default_adapter_id = -1
    /\ kraw \in {{}, {Min(DevIds)}}
    /\ children = [p \in Pids |-> "none"]
    /\ child_pipe = <<>>
    /\ ctl_watch = FALSE
    /\ child_watch = FALSE
    /\ adapter_ops = "NULL"
    /\ started = FALSE
    /\ ev = Idle
    /\ calls = <<>>

\* a plugin's init function asks to be the backend
BtdRegisterAdapterOps ==
    /\ ev.handler = "idle"
    /\ \E b \in Backends :
        LET r == btd_register_adapter_ops(adapter_ops, b)
        IN  /\ adapter_ops' = r.adapter_ops
            /\ ev' = [Idle EXCEPT !.handler = "btd_register_adapter_ops",
                                  !.ops = b, !.ret = r.ret]
    /\ calls' = <<>>
    /\ UNCHANGED <<adapters, default_adapter_id, kraw, children, child_pipe,
                   ctl_watch, child_watch, started>>

\* main() calls manager_init_adapters once
ManagerInitAdapters ==
    /\ ev.handler = "idle"
    /\ ~started
    /\ started' = TRUE
    /\ \E s \in (IF adapter_ops = "hciops" THEN Setups ELSE {NoSetup}) :
        LET r == manager_init_adapters(M, adapter_ops, s)
        IN  /\ adapters' = r.m.adapters
            /\ default_adapter_id' = r.m.default_adapter_id
            /\ children' = r.m.children
            /\ calls' = r.m.calls
            /\ child_watch' = r.child_watch
            /\ ctl_watch' = r.ctl_watch
            /\ ev' = [Idle EXCEPT !.handler = "manager_init_adapters",
                                  !.ops = adapter_ops,
                                  !.err = IF s.devlist = "ok" THEN "NONE"
                                          ELSE "FAILED",
                                  !.list = s.list, !.envs = s.envs]
    /\ UNCHANGED <<kraw, child_pipe, adapter_ops>>

NextStartup ==
    \/ BtdRegisterAdapterOps
    \/ ManagerInitAdapters
    \/ IoStackEventKernel
    \/ MainLoopIterate

\* the daemon from the start of main(): the plugins register, the backend
\* is set up, the kernel's frames are handled
SpecStartup == InitStartup /\ [][NextStartup]_vars

(******************** hciops.c: the bring-up workers ***********************)
\* what the worker's own calls return: hci_open_dev, ioctl(HCIDEVUP),
\* hci_devinfo
WorkerRuns ==
    {[open |-> o, devup |-> u, devinfo |-> d] :
        o \in OpenResults, u \in {"ok", "fail"}, d \in DevinfoResults}

\* init_device in the child: the status it passes to exit()
init_device_child(w) ==
    IF w.open # "ok" THEN 1
    ELSE IF w.devup # "ok" THEN 1
    ELSE IF w.devinfo # "ok" THEN 1
    ELSE 0

\* a child that would return to the caller when the device does not open
child_returning_on_open_failure(w) ==
    IF w.open # "ok" THEN "return" ELSE "exit"

\* init_device in the child: how each path through it ends, in exit()
\* ("exit") or by returning into device_devreg_setup ("return")
init_device_child_path(w) ==
    IF w.open # "ok" THEN "exit"
    ELSE IF w.devup # "ok" THEN "exit"
    ELSE IF w.devinfo # "ok" THEN "exit"
    ELSE "exit"

Exiting(status) == IF status = 0 THEN "exiting0" ELSE "exiting1"

Zombie(st) == IF st = "exiting0" THEN "zombie0" ELSE "zombie1"

ExitingStates == {"exiting0", "exiting1"}
ZombieStates == {"zombie0", "zombie1"}

WriteResults == {"ok", "fail"}
ReadResults == {"ok", "fail"}

\* at_child_exit, run by exit() in the worker: the pid goes into the pipe
\* when the write succeeds
at_child_exit(pipe, pid, wr) == IF wr = "ok" THEN Append(pipe, pid) ELSE pipe

\* child_exit: read one pid from the pipe, then waitpid(child_pid, &status,
\* 0), which returns at once for a zombie and otherwise blocks until the
\* child has terminated
child_exit(ch, pipe, rd) ==
    IF rd # "ok"
    THEN [children |-> ch, pipe |-> pipe, pid |-> 0, blocked |-> FALSE]
    ELSE LET child_pid == Head(pipe)
         IN  IF ch[child_pid] \in ZombieStates
             THEN [children |-> [ch EXCEPT ![child_pid] = "none"],
                   pipe |-> Tail(pipe), pid |-> child_pid, blocked |-> FALSE]
             ELSE [children |-> ch, pipe |-> Tail(pipe), pid |-> child_pid,
                   blocked |-> TRUE]

\* a worker runs in its own process: it moves while the main loop polls or
\* is blocked in a system call
LoopLetsWorkersRun == ev.handler = "idle" \/ ev.blocked

\* the worker leaves init_device: through exit(), where at_child_exit
\* writes its pid, or fails to; a worker that returned instead would go on
\* in device_devreg_setup as a second daemon ("returned")
WorkerExit(p) ==
    /\ LoopLetsWorkersRun
    /\ children[p] = "run"
    /\ \E w \in WorkerRuns, wr \in WriteResults :
        IF init_device_child_path(w) = "exit"
        THEN /\ child_pipe' = at_child_exit(child_pipe, p, wr)
             /\ children' = [children EXCEPT
                               ![p] = IF wr = "ok"
                                      THEN Exiting(init_device_child(w))
                                      ELSE "lost"]
        ELSE /\ child_pipe' = child_pipe
             /\ children' = [children EXCEPT ![p] = "returned"]
    /\ UNCHANGED <<adapters, default_adapter_id, kraw, ctl_watch, child_watch,
                   adapter_ops, started, ev, calls>>

\* the worker is killed by a signal: no atexit handler runs
WorkerKilled(p) ==
    /\ LoopLetsWorkersRun
    /\ children[p] = "run"
    /\ children' = [children EXCEPT ![p] = "lost"]
    /\ UNCHANGED <<adapters, default_adapter_id, kraw, child_pipe, ctl_watch,
                   child_watch, adapter_ops, started, ev, calls>>

\* the worker that wrote its pid has terminated: it is a zombie
WorkerTerminate(p) ==
    /\ LoopLetsWorkersRun
    /\ children[p] \in ExitingStates
    /\ children' = [children EXCEPT ![p] = Zombie(@)]
    /\ UNCHANGED <<adapters, default_adapter_id, kraw, child_pipe, ctl_watch,
                   child_watch, adapter_ops, started, ev, calls>>

\* the main loop calls child_exit for a readable pipe; rds is what the
\* read can give
ChildExitOn(rds) ==
    /\ ev.handler = "idle"
    /\ child_watch
    /\ child_pipe # <<>>
    /\ \E rd \in rds :
        LET r == child_exit(children, child_pipe, rd)
        IN  /\ children' = r.children
            /\ child_pipe' = r.pipe
            /\ ev' = [Idle EXCEPT !.handler = "child_exit",
                                  !.err = IF rd = "ok" THEN "NONE" ELSE "FAILED",
                                  !.old_default = default_adapter_id,
                                  !.pid = r.pid, !.blocked = r.blocked]
    /\ calls' = <<>>
    /\ child_watch' = TRUE
    /\ UNCHANGED <<adapters, default_adapter_id, kraw, ctl_watch, adapter_ops,
                   started>>

ChildExit == ChildExitOn(ReadResults)

ChildExitRead == ChildExitOn({"ok"})

\* the blocking waitpid returns once the child has terminated
WaitpidReturn ==
    /\ ev.handler = "child_exit"
    /\ ev.blocked
    /\ children[ev.pid] \in ZombieStates
    /\ children' = [children EXCEPT ![ev.pid] = "none"]
    /\ ev' = [ev EXCEPT !.blocked = FALSE]
    /\ UNCHANGED <<adapters, default_adapter_id, kraw, child_pipe, ctl_watch,
                   child_watch, adapter_ops, started, calls>>

Worker == \E p \in Pids : WorkerExit(p) \/ WorkerKilled(p) \/ WorkerTerminate(p)

\* the kernel's frames about the first two devices
WorkerDevIds == {d \in DevIds : d < 2}

WorkerReads ==
    {rd \in KernelReads :
        rd.err = "NONE" =>
            get_u16(rd.buf, 1 + HCI_EVENT_HDR_SIZE + 4) \in WorkerDevIds}

IoStackEventWorkers == IoStackEventOn(WorkerReads, TRUE)

NextWorkers ==
    \/ IoStackEventWorkers
    \/ ChildExit
    \/ WaitpidReturn
    \/ Worker
    \/ MainLoopIterate

\* the kernel's frames on the control channel together with the workers
\* and the completion pipe
SpecWorkers == InitNoRaw /\ [][NextWorkers]_vars

\* the main loop dispatches every ready source in each iteration, a
\* system call that can return does, and a process in exit() terminates
SpecWorkersFair ==
    /\ SpecWorkers
    /\ SF_vars(ChildExitRead)
    /\ WF_vars(WaitpidReturn)
    /\ WF_vars(MainLoopIterate)
    /\ \A p \in Pids : WF_vars(WorkerTerminate(p))

(*********************** manager.c: the shutdown ***************************)
\* the answers of hci_get_route during a cleanup, one for each adapter
RECURSIVE RouteLists(_)
RouteLists(n) ==
    IF n = 0 THEN {<<>>}
    ELSE {<<r>> \o l : r \in Routes, l \in RouteLists(n - 1)}

\* g_slist_foreach(adapters, manager_remove_adapter): the nodes of the list
\* as it was when the walk began are visited in order (the next node is
\* read before the callback runs), each callback removing its own adapter
\* from the global list
RECURSIVE cleanup_from(_, _, _, _)
cleanup_from(m, list, routes, i) ==
    IF i > Len(list) THEN m
    ELSE cleanup_from(
             manager_remove_adapter(
                 m, manager_find_adapter_by_id(m.adapters, list[i].dev_id),
                 routes[i]),
             list, routes, i + 1)

\* manager_cleanup: every adapter is removed, then the (empty) list is
\* freed and the Manager interface is unregistered
manager_cleanup(m, routes) ==
    LET m1 == cleanup_from(m, m.adapters, routes, 1)
    IN  Emit([m1 EXCEPT !.adapters = <<>>],
             Call("unregister_interface", -1, <<>>))

\* the main loop has been quit and the daemon shuts down: nothing runs
\* after manager_cleanup
ManagerCleanup ==
    /\ ev.handler = "idle"
    /\ started
    /\ \E routes \in RouteLists(Len(adapters)) :
        LET m == manager_cleanup(M, routes)
        IN  /\ adapters' = m.adapters
            /\ default_adapter_id' = m.default_adapter_id
            /\ calls' = m.calls
            /\ ev' = [Idle EXCEPT !.handler = "manager_cleanup",
                                  !.old_default = default_adapter_id]
    /\ UNCHANGED <<kraw, children, child_pipe, ctl_watch, child_watch,
                   adapter_ops, started>>

NextShutdown ==
    \/ IoStackEventKernel
    \/ MainLoopIterate
    \/ ManagerCleanup

\* the daemon takes kernel device events until it is shut down
SpecShutdown == Init /\ [][NextShutdown]_vars

(************************ reading a handler's run **************************)
\* handler record e says device_event(kind, id) was dispatched
Handled(e, kind, id) ==
    e.handler = "io_stack_event" /\ e.dispatched /\ e.event = kind
        /\ e.dev_id = id

\* the calls of c whose operation is one of ops, in order
CallsOf(c, ops) == SelectSeq(c, LAMBDA x : x.op \in ops)

SecurityOps == {"notify_up", "notify_down"}
RegisterOps == {"register_up", "register_down"}
SignalOps == {"AdapterAdded", "AdapterRemoved", "AdapterSetChanged",
              "DefaultAdapterChanged"}

NoDuplicateIds(ads) ==
    \A i, j \in 1 .. Len(ads) : ads[i].dev_id = ads[j].dev_id => i = j

(******************************* claims ************************************)
\* C1: the adapter collection holds exactly the dev_ids registered and not
\* yet unregistered, in registration order: a successful register of an
\* absent id appends it, a successful unregister takes that id out and keeps
\* the order of the others, and nothing else changes the sequence of ids.
C1_RegistrationOrder ==
    [][\A d \in DevIds :
        /\ (Handled(ev', HCI_DEV_REG, d) /\ CallsOf(calls', RegisterOps) # <<>>
                /\ ev'.ret = 0)
            => IdSeq(adapters') = Append(IdSeq(adapters), d)
        /\ (Handled(ev', HCI_DEV_UNREG, d) /\ ev'.ret = 0)
            => /\ d \in Ids(adapters)
               /\ IdSeq(adapters') =
                    SelectSeq(IdSeq(adapters), LAMBDA x : x # d)
        /\ ~(\/ Handled(ev', HCI_DEV_REG, ev'.dev_id) /\ ev'.ret = 0
                    /\ CallsOf(calls', RegisterOps) # <<>>
             \/ Handled(ev', HCI_DEV_UNREG, ev'.dev_id) /\ ev'.ret = 0)
            => IdSeq(adapters') = IdSeq(adapters)]_vars

\* two adapters registered in the order 1, 0: the collection lists 1 first
C1_Witness ==
    /\ Handled(ev, HCI_DEV_REG, 0)
    /\ ev.ret = 0
    /\ IdSeq(adapters) = <<1, 0>>

\* C2: register(id) while id is in the registry fails and leaves the
\* collection and the default as they were; no two adapters share a dev_id.
C2_DuplicateRegisterRejected ==
    /\ []NoDuplicateIds(adapters)
    /\ [][\A d \in DevIds :
            (Handled(ev', HCI_DEV_REG, d) /\ d \in Ids(adapters)
                    /\ CallsOf(calls', RegisterOps) # <<>>)
                => /\ ev'.ret = -1
                   /\ adapters' = adapters
                   /\ default_adapter_id' = default_adapter_id
                   /\ CallsOf(calls', SignalOps) = <<>>]_vars

\* register was called for an id that is in the registry, and failed
C2_Witness ==
    /\ Handled(ev, HCI_DEV_REG, ev.dev_id)
    /\ CallsOf(calls, RegisterOps) # <<>>
    /\ ev.ret = -1
    /\ ev.dev_id \in Ids(adapters)

\* C3: default_adapter_id is negative ("none") or the dev_id of an adapter
\* in the registry.
C3_DefaultNamesRegisteredAdapter ==
    default_adapter_id < 0 \/ default_adapter_id \in Ids(adapters)

\* the DefaultAdapterChanged signals among the calls c
DefaultChanged(c) == CallsOf(c, {"DefaultAdapterChanged"})

\* what hci_get_route returned, for calls c that hold one such call
RouteOf(c) == CallsOf(c, {"hci_get_route"})[1].id

\* device_event(UNREG, d) runs while d is registered and is the default
UnregistersDefault(d) ==
    /\ Handled(ev', HCI_DEV_UNREG, d)
    /\ d \in Ids(adapters)
    /\ default_adapter_id = d

\* C4 as stated: when the default adapter is unregistered the new default is
\* what the routing query returned (none included), and
\* DefaultAdapterChanged is emitted iff the new default differs from the
\* previous one.
C4_SignalIffDefaultDiffers ==
    [][\A d \in DevIds :
        UnregistersDefault(d)
            => /\ Len(CallsOf(calls', {"hci_get_route"})) = 1
               /\ default_adapter_id' = RouteOf(calls')
               /\ (DefaultChanged(calls') # <<>>
                     <=> default_adapter_id' # default_adapter_id)]_vars

\* C4 amended: when the default adapter is unregistered the new default is
\* what the routing query returned (none included), and exactly one
\* DefaultAdapterChanged, carrying the new default's path, is emitted when
\* the new default is an adapter in the registry (it then differs from the
\* previous default); none is emitted otherwise.
C4_SignalIffDefaultRegistered ==
    [][\A d \in DevIds :
        UnregistersDefault(d)
            => /\ Len(CallsOf(calls', {"hci_get_route"})) = 1
               /\ default_adapter_id' = RouteOf(calls')
               /\ DefaultChanged(calls') =
                    IF default_adapter_id' \in Ids(adapters')
                    THEN <<Call("DefaultAdapterChanged", default_adapter_id',
                                <<Path(default_adapter_id')>>)>>
                    ELSE <<>>
               /\ DefaultChanged(calls') # <<>>
                    => default_adapter_id' # default_adapter_id]_vars

\* the default adapter was unregistered and another registered adapter took
\* over, with its signal
C4_Witness ==
    /\ Handled(ev, HCI_DEV_UNREG, ev.dev_id)
    /\ ev.ret = 0
    /\ ev.old_default = ev.dev_id
    /\ default_adapter_id \in Ids(adapters)
    /\ Len(DefaultChanged(calls)) = 1

\* C5: unregister of a dev_id that is not in the registry returns -1, emits
\* no signal, and leaves the collection and the default as they were.
C5_UnregisterUnknown ==
    [][\A d \in DevIds :
        (Handled(ev', HCI_DEV_UNREG, d) /\ d \notin Ids(adapters))
            => /\ ev'.ret = -1
               /\ CallsOf(calls', SignalOps) = <<>>
               /\ adapters' = adapters
               /\ default_adapter_id' = default_adapter_id]_vars

\* an UNREG event for an unknown device, while another adapter is registered
C5_Witness ==
    /\ Handled(ev, HCI_DEV_UNREG, ev.dev_id)
    /\ ev.ret = -1
    /\ adapters # <<>>
    /\ calls = <<>>

AdapterUp(ads, d) == \E i \in 1 .. Len(ads) : ads[i].dev_id = d /\ ads[i].up

\* C6: with no default, a successful mark_up(d) of a registered adapter
\* makes d the default and emits DefaultAdapterChanged once; while d is the
\* default, mark_down(d) and a successful mark_up(d) keep the default at d,
\* emit no DefaultAdapterChanged, and leave the adapter down, respectively
\* up.
C6_UpDownUp ==
    [][\A d \in DevIds :
        /\ (Handled(ev', HCI_DEV_UP, d) /\ d \in Ids(adapters)
                /\ ev'.ret >= 0 /\ default_adapter_id < 0)
            => /\ default_adapter_id' = d
               /\ DefaultChanged(calls') =
                    <<Call("DefaultAdapterChanged", d, <<Path(d)>>)>>
               /\ AdapterUp(adapters', d)
        /\ (default_adapter_id = d /\ d \in Ids(adapters)
                /\ Handled(ev', HCI_DEV_DOWN, d))
            => /\ default_adapter_id' = d
               /\ DefaultChanged(calls') = <<>>
               /\ d \in Ids(adapters')
               /\ ~AdapterUp(adapters', d)
        /\ (default_adapter_id = d /\ d \in Ids(adapters)
                /\ Handled(ev', HCI_DEV_UP, d) /\ ev'.ret >= 0)
            => /\ default_adapter_id' = d
               /\ DefaultChanged(calls') = <<>>
               /\ AdapterUp(adapters', d)]_vars

\* the default adapter, down, was started again: it is up, still the
\* default, and no signal was emitted
C6_Witness ==
    /\ Handled(ev, HCI_DEV_UP, ev.dev_id)
    /\ ev.ret >= 0
    /\ ev.old_default = ev.dev_id
    /\ default_adapter_id = ev.dev_id
    /\ CallsOf(calls, {"start"}) # <<>>
    /\ DefaultChanged(calls) = <<>>
    /\ AdapterUp(adapters, ev.dev_id)

\* C7: when the start of a registered adapter returns 1, Security gets
\* notify_up(d), the backend's start, then notify_down(d) and nothing else;
\* the adapter stays in the registry and becomes the default exactly when
\* there was none.
C7_ForcedBackDown ==
    [][\A d \in DevIds :
        (Handled(ev', HCI_DEV_UP, d) /\ d \in Ids(adapters) /\ ev'.ret = 1)
            => /\ CallsOf(calls', SecurityOps \cup {"start"}) =
                    <<Call("notify_up", d, <<>>), Call("start", d, <<>>),
                      Call("notify_down", d, <<>>)>>
               /\ IdSeq(adapters') = IdSeq(adapters)
               /\ default_adapter_id' =
                    IF default_adapter_id < 0 THEN d ELSE default_adapter_id
               /\ DefaultChanged(calls') =
                    IF default_adapter_id < 0
                    THEN <<Call("DefaultAdapterChanged", d, <<Path(d)>>)>>
                    ELSE <<>>]_vars

\* a start that returned 1 made the adapter the default
C7_Witness ==
    /\ Handled(ev, HCI_DEV_UP, ev.dev_id)
    /\ ev.ret = 1
    /\ ev.old_default < 0
    /\ default_adapter_id = ev.dev_id
    /\ CallsOf(calls, SecurityOps) =
         <<Call("notify_up", ev.dev_id, <<>>),
           Call("notify_down", ev.dev_id, <<>>)>>

\* the read gave a whole device event frame
WholeDeviceFrame(len, buf) ==
    /\ len >= FrameSize
    /\ buf[1] = HCI_EVENT_PKT
    /\ buf[2] = EVT_STACK_INTERNAL
    /\ get_u16(buf, 1 + HCI_EVENT_HDR_SIZE) = EVT_SI_DEVICE

\* C8: io_stack_event calls device_event only for a read that is at least
\* a whole frame long and carries the event tag, the stack-internal event
\* code and the device sub-event type.
C8_DispatchOnlyWholeFrames ==
    (ev.handler = "io_stack_event" /\ ev.dispatched)
        => WholeDeviceFrame(ev.len, ev.buf)

\* C9: a REG event first spawns the initializer; if the flags cannot be
\* queried or the device is raw, register is not called and the registry is
\* unchanged; otherwise register is called once, with the up flag queried.
C9_RegisterOnlyNonRaw ==
    [][\A d \in DevIds :
        Handled(ev', HCI_DEV_REG, d)
            => /\ calls'[1] \in {Call("fork", d, <<>>),
                                 Call("fork_failed", d, <<>>)}
               /\ calls'[1].op = "fork"
                    => \E p \in Pids :
                          children[p] = "none" /\ children'[p] = "run"
               /\ (calls'[2].op = "devinfo_failed" \/ d \in kraw)
                    => /\ CallsOf(calls', RegisterOps) = <<>>
                       /\ adapters' = adapters
                       /\ default_adapter_id' = default_adapter_id
               /\ (calls'[2].op = "devinfo_up" /\ d \notin kraw)
                    => CallsOf(calls', RegisterOps) =
                         <<Call("register_up", d, <<>>)>>
               /\ (calls'[2].op = "devinfo_down" /\ d \notin kraw)
                    => CallsOf(calls', RegisterOps) =
                         <<Call("register_down", d, <<>>)>>]_vars

\* a REG event for a raw device: the worker was forked, nothing registered
C9_Witness ==
    /\ Handled(ev, HCI_DEV_REG, ev.dev_id)
    /\ ev.dev_id \in kraw
    /\ calls[1].op = "fork"
    /\ calls[2].op \in {"devinfo_up", "devinfo_down"}
    /\ CallsOf(calls, RegisterOps) = <<>>

\* C10: an event for a raw device that is not registered changes no registry
\* state and makes no Security notification and no backend start or stop.
C10_RawDeviceIgnored ==
    [][\A d \in kraw :
        (ev'.handler = "io_stack_event" /\ ev'.dispatched /\ ev'.dev_id = d
                /\ d \notin Ids(adapters))
            => /\ adapters' = adapters
               /\ default_adapter_id' = default_adapter_id
               /\ CallsOf(calls', SecurityOps \cup {"start", "stop"}) = <<>>
      ]_vars

\* C11: on a completion signal the loop reads one pid from the pipe and
\* reclaims that worker without waiting for it: the loop is never blocked
\* in a wait for a worker that has written its pid but not yet terminated.
C11_LoopNeverBlocked ==
    ~(ev.handler = "child_exit" /\ ev.blocked)

\* C12: every worker that has exited, whatever its exit status and also
\* when it was killed or a transfer on the pipe failed, is eventually
\* reaped.
C12_ExitedWorkerReaped ==
    \A p \in Pids :
        (children[p] \in ExitingStates \cup ZombieStates \cup {"lost"})
            ~> (children[p] = "none")

\* the handler that ran left the registry and the workers as they were and
\* called no collaborator
NothingDispatched ==
    /\ ~ev'.dispatched
    /\ calls' = <<>>
    /\ adapters' = adapters
    /\ default_adapter_id' = default_adapter_id
    /\ children' = children

\* C13: a would-block read keeps the control descriptor watched and
\* dispatches nothing; any other read error unwatches it for good: no
\* device_event is dispatched afterwards and the registry no longer changes,
\* while the completion pipe stays watched and child_exit still reaps the
\* workers it is told about.
C13_ControlReadErrors ==
    /\ []child_watch
    /\ [][/\ (ev'.handler = "io_stack_event" /\ ev'.err = "AGAIN")
              => (ctl_watch' /\ NothingDispatched)
          /\ (ev'.handler = "io_stack_event" /\ ev'.err = "FAILED")
              => (~ctl_watch' /\ NothingDispatched)
          /\ ~ctl_watch
              => /\ ~ctl_watch'
                 /\ ev'.handler # "io_stack_event"
                 /\ adapters' = adapters
                 /\ default_adapter_id' = default_adapter_id
          /\ (ev'.handler = "child_exit" /\ ev'.pid # 0 /\ ~ev'.blocked)
              => children'[ev'.pid] = "none"]_vars

\* after the control channel failed, child_exit reaped a worker
C13_Witness ==
    /\ ~ctl_watch
    /\ child_watch
    /\ ev.handler = "child_exit"
    /\ ev.pid # 0
    /\ ~ev.blocked
    /\ children[ev.pid] = "none"

\* no step of child_exit, of its wait or of a worker changes the
\* adapter collection or default_adapter_id; child_exit takes the first pid
\* out of the pipe and reaps that worker whatever the registry holds; and
\* the UNREG, UP and DOWN handlers leave the workers and the pipe alone.
C15_CompletionsLeaveRegistry ==
    [][/\ ev'.handler # "io_stack_event"
            => /\ adapters' = adapters
               /\ default_adapter_id' = default_adapter_id
       /\ (ev.handler = "idle" /\ ev'.handler = "child_exit" /\ ev'.pid # 0)
            => /\ ev'.pid = Head(child_pipe)
               /\ child_pipe' = Tail(child_pipe)
               /\ children[ev'.pid] \in ZombieStates
                    => (~ev'.blocked /\ children'[ev'.pid] = "none")
       /\ \A d \in DevIds :
            (\/ Handled(ev', HCI_DEV_UNREG, d)
             \/ Handled(ev', HCI_DEV_UP, d)
             \/ Handled(ev', HCI_DEV_DOWN, d))
                => (children' = children /\ child_pipe' = child_pipe)]_vars

\* C15: for every interleaving of completions with kernel events the
\* registry is changed by the kernel events only (the frame conditions
\* above), and a loop that is waiting for a worker in child_exit
\* gets on, so the handlers of later kernel events are not held up for good.
C15_CompletionsNeverHoldUp ==
    /\ C15_CompletionsLeaveRegistry
    /\ ev.blocked ~> ~ev.blocked

\* a worker was reaped after an unregister had emptied the registry and
\* re-derived the default
C15_Witness ==
    /\ ev.handler = "child_exit"
    /\ ev.pid # 0
    /\ ~ev.blocked
    /\ children[ev.pid] = "none"
    /\ adapters = <<>>
    /\ default_adapter_id >= 0

\* the answers a REG handler got, read back from the calls c it made, with
\* fork as the outcome of the fork
RegEnv(c, fork) ==
    [NoEnv EXCEPT !.fork = fork,
                  !.devinfo = IF c[2].op = "devinfo_failed" THEN "fail"
                              ELSE "ok",
                  !.kup = (c[2].op = "devinfo_up"),
                  !.create = IF CallsOf(c, {"materialize"}) # <<>>
                             THEN "ready" ELSE "null"]

\* every pid in the pipe is the pid of a worker that wrote it while exiting
PipeHoldsExitedWorkers ==
    \A i \in 1 .. Len(child_pipe) :
        children[child_pipe[i]] \in ExitingStates \cup ZombieStates

\* C17: when the fork fails the REG handler leaves no worker and nothing in
\* the pipe, and otherwise does what it does when the fork succeeds: the
\* same calls after the fork, the same return value, the same adapter
\* collection and default (a device that can be queried is registered with
\* its kernel up flag).
C17_SpawnFailureStillRegisters ==
    /\ []PipeHoldsExitedWorkers
    /\ [][\A d \in DevIds :
            (Handled(ev', HCI_DEV_REG, d) /\ calls'[1].op = "fork_failed")
                => /\ children' = children
                   /\ child_pipe' = child_pipe
                   /\ calls'[2].op = "devinfo_up"
                        => CallsOf(calls', RegisterOps) =
                             <<Call("register_up", d, <<>>)>>
                   /\ calls'[2].op = "devinfo_down"
                        => CallsOf(calls', RegisterOps) =
                             <<Call("register_down", d, <<>>)>>
                   /\ FreePids(children) # {}
                        => LET ok == device_devreg_setup(
                                         M, d, RegEnv(calls', "ok"))
                           IN  /\ adapters' = ok.adapters
                               /\ default_adapter_id' = ok.default_adapter_id
                               /\ Tail(calls') = Tail(ok.calls)
                               /\ ev'.ret = ok.ret]_vars

\* the fork failed and the device was registered up, with no worker around
C17_Witness ==
    /\ Handled(ev, HCI_DEV_REG, ev.dev_id)
    /\ calls[1].op = "fork_failed"
    /\ ev.ret = 0
    /\ AdapterUp(adapters, ev.dev_id)
    /\ \A p \in Pids : children[p] = "none"
    /\ child_pipe = <<>>

\* the device events a handler dispatched, read from its calls: every
\* REG handler starts with the fork, every UP handler notifies Security
DispatchesOf(c) ==
    LET sel == CallsOf(c, {"fork", "fork_failed", "notify_up"})
    IN  [i \in 1 .. Len(sel) |->
            <<IF sel[i].op = "notify_up" THEN HCI_DEV_UP ELSE HCI_DEV_REG,
              sel[i].id>>]

\* REG, then UP when the device is listed up, for every listed device
RECURSIVE ListedEvents(_)
ListedEvents(list) ==
    IF list = <<>> THEN <<>>
    ELSE <<<<HCI_DEV_REG, Head(list).dev_id>>>>
         \o (IF Head(list).up THEN <<<<HCI_DEV_UP, Head(list).dev_id>>>>
             ELSE <<>>)
         \o ListedEvents(Tail(list))

\* the kernel's frame for a device event
DeviceFrame(kind, d) ==
    [err |-> "NONE", len |-> FrameSize,
     buf |-> Frame(HCI_EVENT_PKT, EVT_STACK_INTERNAL, EVT_SI_DEVICE, kind, d)]

\* the same notifications arriving on the control channel, with the same
\* answers from the environment
RECURSIVE ReplayFrames(_, _, _, _)
ReplayFrames(m, list, envs, i) ==
    IF i > Len(list) THEN m
    ELSE LET dr == list[i]
             m1 == io_stack_event(m, DeviceFrame(HCI_DEV_REG, dr.dev_id),
                                  envs[i].reg).m
             m2 == IF dr.up
                   THEN io_stack_event(m1, DeviceFrame(HCI_DEV_UP, dr.dev_id),
                                       envs[i].up).m
                   ELSE m1
         IN  ReplayFrames(m2, list, envs, i + 1)

EnumeratedDevices(e) ==
    e.handler = "manager_init_adapters" /\ e.ops = "hciops" /\ e.err = "NONE"

\* C14: the setup dispatches, in list order, REG and then (when listed up)
\* UP for every listed device, before io_stack_event ever runs; what it
\* leaves (registry, workers, calls made) is what the same REG and UP
\* frames leave when io_stack_event handles them; and a REG frame that
\* was queued for an enumerated device changes no registry state.
C14_EnumerationLikeFrames ==
    /\ [](ev.handler = "io_stack_event" => started)
    /\ [][/\ EnumeratedDevices(ev')
                => /\ ~started
                   /\ DispatchesOf(calls') = ListedEvents(ev'.list)
                   /\ LET r == ReplayFrames(M, ev'.list, ev'.envs, 1)
                      IN  /\ adapters' = r.adapters
                          /\ default_adapter_id' = r.default_adapter_id
                          /\ children' = r.children
                          /\ calls' = r.calls
          /\ \A d \in DevIds :
                (Handled(ev', HCI_DEV_REG, d) /\ d \in Ids(adapters))
                    => /\ adapters' = adapters
                       /\ default_adapter_id' = default_adapter_id]_vars

\* two listed devices, the first one up: both are registered and the first
\* is the default
C14_Witness ==
    /\ EnumeratedDevices(ev)
    /\ Len(ev.list) = 2
    /\ ev.list[1].up
    /\ IdSeq(adapters) = <<ev.list[1].dev_id, ev.list[2].dev_id>>
    /\ AdapterUp(adapters, ev.list[1].dev_id)
    /\ default_adapter_id = ev.list[1].dev_id

\* C16: an Up event for an adapter that is Up, and a Down event for an
\* adapter that is Down, change no registry state, notify Security of
\* nothing, and call neither the backend's start nor its stop.
C16_MatchingEventIsNoOp ==
    [][\A d \in DevIds :
        (\/ Handled(ev', HCI_DEV_UP, d) /\ AdapterUp(adapters, d)
         \/ /\ Handled(ev', HCI_DEV_DOWN, d)
            /\ d \in Ids(adapters)
            /\ ~AdapterUp(adapters, d))
            => /\ adapters' = adapters
               /\ default_adapter_id' = default_adapter_id
               /\ CallsOf(calls', SecurityOps \cup {"start", "stop"}) = <<>>
      ]_vars

\* C19: a backend registration succeeds only when no backend is registered
\* (and then makes the asking backend the active one); with a backend
\* registered it returns -EALREADY; a registered backend is never replaced.
C19_OneBackend ==
    [][/\ ev'.handler = "btd_register_adapter_ops"
            => /\ ev'.ret = 0
                    => (adapter_ops = "NULL" /\ adapter_ops' = ev'.ops)
               /\ adapter_ops # "NULL" => ev'.ret = -EALREADY
       /\ adapter_ops # "NULL" => adapter_ops' = adapter_ops]_vars

\* another backend asked after hciops was registered and set up
C19_Witness ==
    /\ ev.handler = "btd_register_adapter_ops"
    /\ ev.ops = "other"
    /\ ev.ret = -EALREADY
    /\ adapter_ops = "hciops"
    /\ started
    /\ adapters # <<>>

\* the paths of the ready adapters of ads, in the order of ads
ReadyPaths(ads) ==
    LET ready == SelectSeq(ads, LAMBDA a : a.ready)
    IN  [i \in 1 .. Len(ready) |-> Path(ready[i].dev_id)]

\* C18: every AdapterSetChanged carries the paths of the ready adapters of
\* the collection as it is when the signal is sent (before the append of a
\* register, after the removal of an unregister), and GetProperties returns
\* the paths of the ready adapters, each once and in registration order.
C18_ListingsAreReadyAdapters ==
    [][/\ \A i \in 1 .. Len(calls') :
            calls'[i].op = "AdapterSetChanged"
                => calls'[i].paths = ReadyPaths(IF Handled(ev', HCI_DEV_UNREG,
                                                           ev'.dev_id)
                                                THEN adapters' ELSE adapters)
       /\ ev'.handler = "get_properties"
            => calls' = <<Call("GetProperties", -1, ReadyPaths(adapters))>>
      ]_vars

\* the unregister of d emitted one AdapterRemoved, for d's path, and one
\* AdapterSetChanged, without d's path
RemovalSignalled(d) ==
    /\ CallsOf(calls', {"AdapterRemoved"}) =
         <<Call("AdapterRemoved", d, <<Path(d)>>)>>
    /\ Len(CallsOf(calls', {"AdapterSetChanged"})) = 1
    /\ \A i \in 1 .. Len(CallsOf(calls', {"AdapterSetChanged"})[1].paths) :
         CallsOf(calls', {"AdapterSetChanged"})[1].paths[i] # Path(d)

\* C20 as stated: unregistering an adapter that is not the default, also
\* when no default is set, leaves default_adapter_id unchanged and emits no
\* DefaultAdapterChanged; every unregister emits one AdapterRemoved for the
\* removed path and an AdapterSetChanged without it.
C20_RederiveOnlyForDefault ==
    [][\A d \in DevIds :
        (Handled(ev', HCI_DEV_UNREG, d) /\ d \in Ids(adapters))
            => /\ default_adapter_id # d
                    => /\ default_adapter_id' = default_adapter_id
                       /\ DefaultChanged(calls') = <<>>
               /\ RemovalSignalled(d)]_vars

\* C20 amended: unregistering an adapter while another id is the default
\* leaves default_adapter_id unchanged, asks for no route and emits no
\* DefaultAdapterChanged; when the removed adapter is the default or no
\* default is set, the routing query is made once and its answer becomes
\* the default; every unregister emits one AdapterRemoved for the removed
\* path and an AdapterSetChanged without it.
C20_RederiveUnlessOtherDefault ==
    [][\A d \in DevIds :
        (Handled(ev', HCI_DEV_UNREG, d) /\ d \in Ids(adapters))
            => /\ (default_adapter_id # d /\ default_adapter_id >= 0)
                    => /\ default_adapter_id' = default_adapter_id
                       /\ CallsOf(calls', {"hci_get_route"}) = <<>>
                       /\ DefaultChanged(calls') = <<>>
               /\ (default_adapter_id = d \/ default_adapter_id < 0)
                    => /\ Len(CallsOf(calls', {"hci_get_route"})) = 1
                       /\ default_adapter_id' = RouteOf(calls')
               /\ RemovalSignalled(d)]_vars

\* an adapter was unregistered while another one was the default
C20_Witness ==
    /\ Handled(ev, HCI_DEV_UNREG, ev.dev_id)
    /\ ev.ret = 0
    /\ ev.old_default >= 0
    /\ ev.old_default # ev.dev_id
    /\ default_adapter_id = ev.old_default
    /\ default_adapter_id \in Ids(adapters)
    /\ CallsOf(calls, {"AdapterRemoved"}) # <<>>

\* the three steps of handling an Up event
UpSteps == {"configure", "notify_up", "start"}

\* C21: an Up event for a registered adapter d applies the settings (when
\* they can be applied), then notifies Security up, then runs the start
\* operation (of an adapter that is not up yet), in this order; notify_up
\* and the start happen whether or not the settings were applied; the
\* default changes, to d, only when the start returned no error, and
\* DefaultAdapterChanged is emitted after the three steps.
C21_UpStepsInOrder ==
    [][\A d \in DevIds :
        (Handled(ev', HCI_DEV_UP, d) /\ d \in Ids(adapters))
            => LET steps == CallsOf(calls', UpSteps)
                   last  == IF AdapterUp(adapters, d)
                            THEN <<Call("notify_up", d, <<>>)>>
                            ELSE <<Call("notify_up", d, <<>>),
                                   Call("start", d, <<>>)>>
               IN  /\ steps \in {last, <<Call("configure", d, <<>>)>> \o last}
                   /\ CallsOf(calls', UpSteps \cup {"DefaultAdapterChanged"})
                        = steps \o DefaultChanged(calls')
                   /\ ev'.ret < 0
                        => /\ default_adapter_id' = default_adapter_id
                           /\ DefaultChanged(calls') = <<>>
                   /\ default_adapter_id' # default_adapter_id
                        => /\ default_adapter_id' = d
                           /\ ev'.ret >= 0]_vars

\* the settings of a registered, non-raw adapter could not be applied;
\* Security was notified, the start ran, and the adapter became the default
C21_Witness ==
    /\ Handled(ev, HCI_DEV_UP, ev.dev_id)
    /\ ev.dev_id \in Ids(adapters)
    /\ ev.dev_id \notin kraw
    /\ CallsOf(calls, UpSteps) =
         <<Call("notify_up", ev.dev_id, <<>>), Call("start", ev.dev_id, <<>>)>>
    /\ ev.ret = 0
    /\ ev.old_default < 0
    /\ default_adapter_id = ev.dev_id

\* one AdapterRemoved for each adapter of ads, in order
RemovedSignals(ads) ==
    [i \in 1 .. Len(ads) |->
        Call("AdapterRemoved", ads[i].dev_id, <<Path(ads[i].dev_id)>>)]

\* manager_cleanup removes every adapter, with one AdapterRemoved each
CleanupRemovesAll ==
    [][ev'.handler = "manager_cleanup"
        => /\ CallsOf(calls', {"AdapterRemoved"}) = RemovedSignals(adapters)
           /\ adapters' = <<>>]_vars

\* C22: manager_cleanup emits exactly one AdapterRemoved for each adapter
\* that was still registered, leaves the registry empty, and leaves
\* default_adapter_id naming no adapter (none is registered any more).
C22_CleanupRemovesAll ==
    [][ev'.handler = "manager_cleanup"
        => /\ CallsOf(calls', {"AdapterRemoved"}) = RemovedSignals(adapters)
           /\ adapters' = <<>>
           /\ default_adapter_id' < 0]_vars

\* the states of a worker that is running or has left through exit() or a
\* signal
ExitedOrRunning == {"none", "run", "lost"} \cup ExitingStates \cup ZombieStates

\* C23: no worker ever returns from init_device into the caller: a worker
\* that stops running has exited with status 0 or 1 (or was killed), and
\* its leaving changes neither the registry nor the default nor the calls
\* of the parent; the handling of one Registered event makes at most one
\* registration attempt, whether or not a worker was forked.
C23_WorkerNeverReturns ==
    [][/\ \A p \in Pids :
            /\ children'[p] \in ExitedOrRunning
            /\ (children[p] = "run" /\ children'[p] # "run")
                => /\ children'[p] \in ExitingStates \cup {"lost"}
                   /\ UNCHANGED <<adapters, default_adapter_id, calls, ev>>
       /\ \A d \in DevIds :
            Handled(ev', HCI_DEV_REG, d)
                => /\ Len(CallsOf(calls', RegisterOps)) <= 1
                   /\ Len(adapters') <= Len(adapters) + 1
                   /\ Len(CallsOf(calls', {"fork", "fork_failed"})) = 1]_vars

\* a worker that could not open its device has exited with status 1, and
\* the one registration of its Registered event stands
C23_Witness ==
    /\ ev.handler = "idle"
    /\ \E p \in Pids : children[p] = "zombie1"
    /\ Len(adapters) = 1

====
